---- MODULE Spec2Model ----
(***************************************************************************)
(* A model of src/models.rs of rs-fsrs: the Card record, its state machine *)
(* (update_state), its log capture (save_log), its retrievability estimate *)
(* (get_retrievability) and the ScheduledCards container (new,            *)
(* select_card).                                                           *)
(*                                                                         *)
(* Option<T> is modelled as a sequence of length at most one: <<>> is None *)
(* and <<x>> is Some(x).  A HashMap<&Rating, Card> is a function whose     *)
(* domain is the set of keys inserted so far.                              *)
(***************************************************************************)
EXTENDS Integers, Sequences, FiniteSets, TLC

\* ------------------------------------------------------------------ bounds

\* Instants (DateTime<Utc>) are drawn from 0..MaxInstant.
MaxInstant == 1

\* Stored lapses counters are drawn from 0 and the last LapsesSpan+1 values
\* of the i32 range.
LapsesSpan == 1

\* A run performs at most MaxOps operations.
MaxOps == 3

\* The f32 format scaled down: MantBits bits of precision (24 in f32, the
\* hidden bit included) and exponents 1-ExpMax..ExpMax (ExpMax is 127 in
\* f32), with subnormals, infinity and NaN, rounding to nearest, ties to
\* even.  MantBits >= 4 makes 1.0 and 9.0 exact, as they are in f32.
MantBits == 4

ExpMax == 3

\* elapsed_days (an i64) is drawn from 0..MaxDays.  As every i64 is within
\* the range of f32, MaxDays is within the range of the scaled format.
MaxDays == 9

\* ------------------------------------------------------- program constants

\* pub lapses: i32 / pub reps: i32
I32_MAX == 2147483647

I32_MIN == -I32_MAX - 1

\* ------------------------------------------------------------ enumerations

\* enum State
States == {"New", "Learning", "Review", "Relearning"}

\* enum Rating
Ratings == {"Again", "Hard", "Good", "Easy"}

\* VARIANTS with its last element left out.
VARIANTS_short == <<"Again", "Hard", "Good">>

\* static VARIANTS: [Rating; 4]
VARIANTS == <<"Again", "Hard", "Good", "Easy">>

\* Rating::iter(): the elements of VARIANTS in order.
Rating_iter == VARIANTS

Instants == 0..MaxInstant

\* ------------------------------------------------------------------ floats

\* A non-negative f32 is [k |-> "fin", v |-> n], the value n / Unit with n
\* on the format's grid, or infinity, or NaN.  Negative values are left
\* out: stability and elapsed_days are drawn from the non-negative values
\* the data model allows.
Fin(v) == [k |-> "fin", v |-> v]

F_Inf == [k |-> "inf", v |-> 0]

F_NaN == [k |-> "nan", v |-> 0]

RECURSIVE Pow2(_)
Pow2(n) == IF n = 0 THEN 1 ELSE 2 * Pow2(n - 1)

\* The number of units in 1.0: one unit is the smallest subnormal,
\* 2^(EMin - (MantBits - 1)) with EMin = 1 - ExpMax.
Unit == Pow2(MantBits + ExpMax - 2)

\* The largest finite value, (2 - 2^(1-MantBits)) * 2^ExpMax, in units.
MaxFin == (Pow2(MantBits) - 1) * Pow2(2 * ExpMax - 1)

\* 2^(ExpMax+1) in units: what a value beyond MaxFin rounds to is infinity.
OverFin == Pow2(MantBits) * Pow2(2 * ExpMax - 1)

\* The spacing of the grid at k units: 1 among the subnormals and in the
\* first binade, doubling with every binade.
RECURSIVE Ulp(_)
Ulp(k) == IF k < Pow2(MantBits) THEN 1 ELSE 2 * Ulp(k \div 2)

\* The finite values of the format, in units.
FiniteUnits == {k \in 0..MaxFin : k % Ulp(k) = 0}

EvenMantissa(k) == (k \div Ulp(k)) % 2 = 0

\* The f32 nearest to n/d units (n >= 0, d > 0), ties to even; a value
\* that rounds past MaxFin is infinity.  lo and hi are the grid points
\* next to n/d: below it and above it (both n/d when it is on the grid).
Round(n, d) ==
    IF n >= OverFin * d
    THEN F_Inf
    ELSE LET q  == n \div d
             lo == q - (q % Ulp(q))
             hi == IF lo * d = n THEN lo ELSE lo + Ulp(lo)
             r  == IF 2 * n < (lo + hi) * d THEN lo
                   ELSE IF 2 * n > (lo + hi) * d THEN hi
                   ELSE IF EvenMantissa(lo) THEN lo ELSE hi
         IN  IF r = OverFin THEN F_Inf ELSE Fin(r)

\* n as f32, for an integer n >= 0
i64_as_f32(n) == Round(n * Unit, 1)

\* a * b on f32
f32_mul(a, b) ==
    IF a.k = "nan" \/ b.k = "nan" THEN F_NaN
    ELSE IF a.k = "inf" \/ b.k = "inf"
         THEN IF a = Fin(0) \/ b = Fin(0) THEN F_NaN ELSE F_Inf
         ELSE Round(a.v * b.v, Unit)

\* a / b on f32
f32_div(a, b) ==
    IF a.k = "nan" \/ b.k = "nan" THEN F_NaN
    ELSE IF a.k = "inf" THEN (IF b.k = "inf" THEN F_NaN ELSE F_Inf)
    ELSE IF b.k = "inf" THEN Fin(0)
    ELSE IF b.v = 0 THEN (IF a.v = 0 THEN F_NaN ELSE F_Inf)
    ELSE Round(a.v * Unit, b.v)

\* a + b on f32
f32_add(a, b) ==
    IF a.k = "nan" \/ b.k = "nan" THEN F_NaN
    ELSE IF a.k = "inf" \/ b.k = "inf" THEN F_Inf
    ELSE Round(a.v + b.v, 1)

\* x.powf(-1.0)
f32_powf_neg1(x) ==
    IF x.k = "nan" THEN F_NaN
    ELSE IF x.k = "inf" THEN Fin(0)
    ELSE IF x.v = 0 THEN F_Inf
    ELSE Round(Unit * Unit, x.v)

\* The literals 1.0 and 9.0
F_One == Fin(Unit)

F_Nine == Fin(9 * Unit)

\* a <= b on f32 (false when either is NaN)
F_Leq(a, b) ==
    /\ a.k # "nan"
    /\ b.k # "nan"
    /\ \/ b.k = "inf"
       \/ a.k = "fin" /\ b.k = "fin" /\ a.v <= b.v

F_Less(a, b) == F_Leq(a, b) /\ a # b

\* --------------------------------------------------------------------- Card

\* Card::new(): t1 and t2 are the two readings of Utc::now().
Card_new(t1, t2) ==
    [due            |-> t1,
     stability      |-> Fin(0),
     difficulty     |-> Fin(0),
     elapsed_days   |-> 0,
     scheduled_days |-> 0,
     reps           |-> 0,
     lapses         |-> 0,
     state          |-> "New",
     last_review    |-> t2,
     previous_state |-> "New",
     log            |-> <<>>]

\* self.lapses += 1 on an i32.  With overflow checks (a debug build) the
\* addition panics at i32::MAX; without them (a release build) it wraps.
add_one(l, checks) ==
    IF l = I32_MAX
    THEN [val |-> IF checks THEN l ELSE I32_MIN, panic |-> checks]
    ELSE [val |-> l + 1, panic |-> FALSE]

\* update_state that also records the state it leaves in previous_state.
update_state_tracking(c, rating, checks) ==
    CASE c.state = "New" ->
           LET a == IF rating = "Again"
                    THEN add_one(c.lapses, checks)
                    ELSE [val |-> c.lapses, panic |-> FALSE]
           IN  IF a.panic
               THEN [card |-> c, panic |-> TRUE]
               ELSE [card |-> [c EXCEPT !.lapses = a.val,
                                        !.previous_state = c.state,
                                        !.state = IF rating = "Easy"
                                                  THEN "Review"
                                                  ELSE "Learning"],
                     panic |-> FALSE]
      [] c.state \in {"Learning", "Relearning"} ->
           IF rating = "Good" \/ rating = "Easy"
           THEN [card |-> [c EXCEPT !.previous_state = c.state,
                                   !.state = "Review"], panic |-> FALSE]
           ELSE [card |-> c, panic |-> FALSE]
      [] c.state = "Review" ->
           IF rating = "Again"
           THEN LET a == add_one(c.lapses, checks)
                IN  IF a.panic
                    THEN [card |-> c, panic |-> TRUE]
                    ELSE [card |-> [c EXCEPT !.lapses = a.val,
                                             !.previous_state = c.state,
                                             !.state = "Relearning"],
                          panic |-> FALSE]
           ELSE [card |-> c, panic |-> FALSE]

\* update_state whose New arm moves on Good and Easy only, as the Learning
\* arm does.
update_state_new_as_learning(c, rating, checks) ==
    CASE c.state = "New" ->
           LET a == IF rating = "Again"
                    THEN add_one(c.lapses, checks)
                    ELSE [val |-> c.lapses, panic |-> FALSE]
           IN  IF a.panic
               THEN [card |-> c, panic |-> TRUE]
               ELSE [card |-> [c EXCEPT !.lapses = a.val,
                                        !.state = IF rating = "Easy"
                                                  THEN "Review"
                                                  ELSE IF rating = "Good"
                                                  THEN "Learning"
                                                  ELSE c.state],
                     panic |-> FALSE]
      [] c.state \in {"Learning", "Relearning"} ->
           IF rating = "Good" \/ rating = "Easy"
           THEN [card |-> [c EXCEPT !.state = "Review"], panic |-> FALSE]
           ELSE [card |-> c, panic |-> FALSE]
      [] c.state = "Review" ->
           IF rating = "Again"
           THEN LET a == add_one(c.lapses, checks)
                IN  IF a.panic
                    THEN [card |-> c, panic |-> TRUE]
                    ELSE [card |-> [c EXCEPT !.lapses = a.val,
                                             !.state = "Relearning"],
                          panic |-> FALSE]
           ELSE [card |-> c, panic |-> FALSE]

\* update_state that counts a lapse on Again in every state.
update_state_any_again(c, rating, checks) ==
    CASE c.state = "New" ->
           LET a == IF rating = "Again"
                    THEN add_one(c.lapses, checks)
                    ELSE [val |-> c.lapses, panic |-> FALSE]
           IN  IF a.panic
               THEN [card |-> c, panic |-> TRUE]
               ELSE [card |-> [c EXCEPT !.lapses = a.val,
                                        !.state = IF rating = "Easy"
                                                  THEN "Review"
                                                  ELSE "Learning"],
                     panic |-> FALSE]
      [] c.state \in {"Learning", "Relearning"} ->
           IF rating = "Good" \/ rating = "Easy"
           THEN [card |-> [c EXCEPT !.state = "Review"], panic |-> FALSE]
           ELSE IF rating = "Again"
           THEN LET a == add_one(c.lapses, checks)
                IN  IF a.panic
                    THEN [card |-> c, panic |-> TRUE]
                    ELSE [card |-> [c EXCEPT !.lapses = a.val],
                          panic |-> FALSE]
           ELSE [card |-> c, panic |-> FALSE]
      [] c.state = "Review" ->
           IF rating = "Again"
           THEN LET a == add_one(c.lapses, checks)
                IN  IF a.panic
                    THEN [card |-> c, panic |-> TRUE]
                    ELSE [card |-> [c EXCEPT !.lapses = a.val,
                                             !.state = "Relearning"],
                          panic |-> FALSE]
           ELSE [card |-> c, panic |-> FALSE]

\* update_state that sends a Review card to Learning on Again.
update_state_to_learning(c, rating, checks) ==
    CASE c.state = "New" ->
           LET a == IF rating = "Again"
                    THEN add_one(c.lapses, checks)
                    ELSE [val |-> c.lapses, panic |-> FALSE]
           IN  IF a.panic
               THEN [card |-> c, panic |-> TRUE]
               ELSE [card |-> [c EXCEPT !.lapses = a.val,
                                        !.state = IF rating = "Easy"
                                                  THEN "Review"
                                                  ELSE "Learning"],
                     panic |-> FALSE]
      [] c.state \in {"Learning", "Relearning"} ->
           IF rating = "Good" \/ rating = "Easy"
           THEN [card |-> [c EXCEPT !.state = "Review"], panic |-> FALSE]
           ELSE [card |-> c, panic |-> FALSE]
      [] c.state = "Review" ->
           IF rating = "Again"
           THEN LET a == add_one(c.lapses, checks)
                IN  IF a.panic
                    THEN [card |-> c, panic |-> TRUE]
                    ELSE [card |-> [c EXCEPT !.lapses = a.val,
                                             !.state = "Learning"],
                          panic |-> FALSE]
           ELSE [card |-> c, panic |-> FALSE]

\* Card::update_state(&mut self, rating).  The result is the card after the
\* call and whether the call panicked (the card is then as before the call).
update_state(c, rating, checks) ==
    CASE c.state = "New" ->
           LET a == IF rating = "Again"
                    THEN add_one(c.lapses, checks)
                    ELSE [val |-> c.lapses, panic |-> FALSE]
           IN  IF a.panic
               THEN [card |-> c, panic |-> TRUE]
               ELSE [card |-> [c EXCEPT !.lapses = a.val,
                                        !.state = IF rating = "Easy"
                                                  THEN "Review"
                                                  ELSE "Learning"],
                     panic |-> FALSE]
      [] c.state \in {"Learning", "Relearning"} ->
           IF rating = "Good" \/ rating = "Easy"
           THEN [card |-> [c EXCEPT !.state = "Review"], panic |-> FALSE]
           ELSE [card |-> c, panic |-> FALSE]
      [] c.state = "Review" ->
           IF rating = "Again"
           THEN LET a == add_one(c.lapses, checks)
                IN  IF a.panic
                    THEN [card |-> c, panic |-> TRUE]
                    ELSE [card |-> [c EXCEPT !.lapses = a.val,
                                             !.state = "Relearning"],
                          panic |-> FALSE]
           ELSE [card |-> c, panic |-> FALSE]

\* get_retrievability with the exponent 1.0 in place of -1.0.
get_retrievability_pow1(c) ==
    f32_add(F_One,
            f32_div(i64_as_f32(c.elapsed_days),
                    f32_mul(F_Nine, c.stability)))

\* get_retrievability that answers 1.0 for a card of stability 0.
get_retrievability_guarded(c) ==
    IF c.stability = Fin(0)
    THEN F_One
    ELSE f32_powf_neg1(
             f32_add(F_One,
                     f32_div(i64_as_f32(c.elapsed_days),
                             f32_mul(F_Nine, c.stability))))

\* Card::get_retrievability(&self)
get_retrievability(c) ==
    f32_powf_neg1(
        f32_add(F_One,
                f32_div(i64_as_f32(c.elapsed_days),
                        f32_mul(F_Nine, c.stability))))

\* save_log recording the current state in place of previous_state.
save_log_current_state(c, rating) ==
    [c EXCEPT !.log = << [rating         |-> rating,
                          elapsed_days   |-> c.elapsed_days,
                          scheduled_days |-> c.scheduled_days,
                          state          |-> c.state,
                          reviewed_date  |-> c.last_review] >>]

\* save_log that keeps a log the card already has.
save_log_keep_first(c, rating) ==
    IF c.log # <<>>
    THEN c
    ELSE [c EXCEPT !.log = << [rating         |-> rating,
                               elapsed_days   |-> c.elapsed_days,
                               scheduled_days |-> c.scheduled_days,
                               state          |-> c.previous_state,
                               reviewed_date  |-> c.last_review] >>]

\* Card::save_log(&mut self, rating)
save_log(c, rating) ==
    [c EXCEPT !.log = << [rating         |-> rating,
                          elapsed_days   |-> c.elapsed_days,
                          scheduled_days |-> c.scheduled_days,
                          state          |-> c.previous_state,
                          reviewed_date  |-> c.last_review] >>]

\* ----------------------------------------------------------- ScheduledCards

\* HashMap::insert(k, v)
hm_insert(m, k, v) == [x \in (DOMAIN m) \cup {k} |-> IF x = k THEN v ELSE m[x]]

\* The loop attaching a log to every candidate after its update.
RECURSIVE new_loop_logging(_, _, _, _, _)
new_loop_logging(cards, c, it, i, checks) ==
    IF i > Len(it)
    THEN [cards |-> cards, panic |-> FALSE]
    ELSE LET rating   == it[i]
             inserted == hm_insert(cards, rating, c)
             u        == update_state(inserted[rating], rating, checks)
         IN  IF u.panic
             THEN [cards |-> inserted, panic |-> TRUE]
             ELSE new_loop_logging(
                      [inserted EXCEPT ![rating] = save_log(u.card, rating)],
                      c, it, i + 1, checks)

\* The loop of ScheduledCards::new over the ratings i..Len(it) of the
\* iterator: insert a clone of the card, then update the stored clone.
RECURSIVE new_loop(_, _, _, _, _)
new_loop(cards, c, it, i, checks) ==
    IF i > Len(it)
    THEN [cards |-> cards, panic |-> FALSE]
    ELSE LET rating   == it[i]
             inserted == hm_insert(cards, rating, c)
             u        == update_state(inserted[rating], rating, checks)
         IN  IF u.panic
             THEN [cards |-> inserted, panic |-> TRUE]
             ELSE new_loop([inserted EXCEPT ![rating] = u.card],
                           c, it, i + 1, checks)

\* ScheduledCards::new(card, now)
ScheduledCards_new(c, now, checks) ==
    LET l == new_loop(<<>>, c, Rating_iter, 1, checks)
    IN  [sc |-> [cards |-> l.cards, now |-> now], panic |-> l.panic]

\* select_card taking the candidate out of the map (remove in place of get).
select_card_remove(sc, rating) ==
    IF rating \in DOMAIN sc.cards
    THEN [card  |-> <<sc.cards[rating]>>,
          sc    |-> [sc EXCEPT !.cards =
                        [x \in (DOMAIN sc.cards) \ {rating} |-> sc.cards[x]]],
          panic |-> FALSE]
    ELSE [card |-> <<>>, sc |-> sc, panic |-> TRUE]

\* ScheduledCards::select_card(&self, rating): get(&rating).unwrap().clone().
\* The result is the returned card, the container after the call and
\* whether the unwrap panicked.
select_card(sc, rating) ==
    IF rating \in DOMAIN sc.cards
    THEN [card |-> <<sc.cards[rating]>>, sc |-> sc, panic |-> FALSE]
    ELSE [card |-> <<>>, sc |-> sc, panic |-> TRUE]

\* -------------------------------------------------------------------- state

VARIABLES
    card,       \* the caller's Card
    sched,      \* Option<ScheduledCards>: the container built from card
    selected,   \* Option<Card>: the card last returned by select_card
    checks,     \* whether the build checks integer overflow
    panicked,   \* "no", or the operation whose panic ended the run
    last,       \* history: the last operation, its argument, the card before
    from,       \* history: card.state before the most recent update_state
    built,      \* history: the card, instant and result of ScheduledCards::new
    retr,       \* Option<f32>: the last result of get_retrievability
    twin,       \* Option: a second card stepped with the same ratings as
                \* card, and, as history, that card before the last step
                \* and whether the step panicked
    hist,       \* history of card since the run began: the states it has
                \* been in, the Again ratings applied to it in New or
                \* Review, the times it entered Relearning
    ops         \* the number of operations performed

vars == <<card, sched, selected, checks, panicked, last, from, built, retr,
          twin, hist, ops>>

NoOp == [op |-> "none", rating |-> "none", now |-> 0, pre |-> <<>>]

Op(name, rating, now, pre) ==
    [op |-> name, rating |-> rating, now |-> now, pre |-> <<pre>>]

\* Cards as Card::new() returns them.
NewCards == {Card_new(t1, t2) : t1, t2 \in Instants}

\* The last LapsesSpan+1 values of the i32 range.
LateLapses == {I32_MAX - k : k \in 0..LapsesSpan}

\* Cards late in a long review history that started at Card::new(): after
\* Easy and then l times (Again, Good) the card is in Review with lapses l
\* and every other field as Card::new() set it.
HistoryCards ==
    {[Card_new(t, t) EXCEPT !.state = "Review", !.lapses = l] :
        t \in Instants, l \in LateLapses}

NoHistory(c) == [visited |-> {c.state}, agains |-> 0, relearnings |-> 0]

InitWith(cards) ==
    /\ card \in cards
    /\ twin = <<>>
    /\ hist = NoHistory(card)
    /\ sched = <<>>
    /\ selected = <<>>
    /\ checks \in BOOLEAN
    /\ panicked = "no"
    /\ last = NoOp
    /\ from = <<>>
    /\ built = <<>>
    /\ retr = <<>>
    /\ ops = 0

Init == InitWith(NewCards)

InitLong == InitWith(NewCards \cup HistoryCards)

\* The fields of a card that no operation of this file writes, as
\* Card::new() sets them.
FreshFields ==
    [due |-> 0, last_review |-> 0, stability |-> Fin(0),
     difficulty |-> Fin(0), elapsed_days |-> 0, scheduled_days |-> 0,
     reps |-> 0]

\* The same fields as a caller that has reviewed the card may have set
\* them (every field of Card is pub), pairwise different.
ReviewedFields ==
    [due |-> MaxInstant, last_review |-> 0, stability |-> Fin(2),
     difficulty |-> Fin(3), elapsed_days |-> 1, scheduled_days |-> 2,
     reps |-> 3]

StoredCard(p, s, ps, l) ==
    [due            |-> p.due,
     stability      |-> p.stability,
     difficulty     |-> p.difficulty,
     elapsed_days   |-> p.elapsed_days,
     scheduled_days |-> p.scheduled_days,
     reps           |-> p.reps,
     lapses         |-> l,
     state          |-> s,
     last_review    |-> p.last_review,
     previous_state |-> ps,
     log            |-> <<>>]

\* Cards as a caller may hold them, with counters that are not negative
\* and no log yet: in any state with the other fields as Card::new() sets
\* them, and in any state with any previous_state once reviewed.
StoredCards ==
    {StoredCard(FreshFields, s, "New", l) :
        s \in States, l \in {0} \cup LateLapses}
    \cup
    {StoredCard(ReviewedFields, s, ps, l) :
        s \in States, ps \in States, l \in {0} \cup LateLapses}

InitAny == InitWith(StoredCards)

Running == panicked = "no" /\ ops < MaxOps

\* card.update_state(rating)
UpdateState(rating) ==
    /\ Running
    /\ LET u == update_state(card, rating, checks)
       IN  /\ card' = u.card
           /\ panicked' = IF u.panic THEN "update_state" ELSE "no"
           /\ hist' = IF u.panic THEN hist
                      ELSE [visited |-> hist.visited \cup {u.card.state},
                            agains |-> hist.agains +
                                IF rating = "Again"
                                   /\ card.state \in {"New", "Review"}
                                THEN 1 ELSE 0,
                            relearnings |-> hist.relearnings +
                                IF u.card.state = "Relearning"
                                   /\ card.state # "Relearning"
                                THEN 1 ELSE 0]
    /\ last' = Op("update_state", rating, 0, card)
    /\ from' = <<card.state>>
    /\ ops' = ops + 1
    /\ UNCHANGED <<sched, selected, checks, built, retr, twin>>

\* card.save_log(rating)
SaveLog(rating) ==
    /\ Running
    /\ card' = save_log(card, rating)
    /\ last' = Op("save_log", rating, 0, card)
    /\ ops' = ops + 1
    /\ UNCHANGED <<sched, selected, checks, panicked, from, built, retr,
                   twin, hist>>

\* sched = ScheduledCards::new(&card, now)
Schedule(now) ==
    /\ Running
    /\ LET n == ScheduledCards_new(card, now, checks)
       IN  /\ sched' = IF n.panic THEN sched ELSE <<n.sc>>
           /\ built' = IF n.panic THEN built
                       ELSE <<[card |-> card, now |-> now, sc |-> n.sc]>>
           /\ panicked' = IF n.panic THEN "new" ELSE "no"
    /\ last' = Op("new", "none", now, card)
    /\ ops' = ops + 1
    /\ UNCHANGED <<card, selected, checks, from, retr, twin, hist>>

\* selected = sched.select_card(rating)
SelectCard(rating) ==
    /\ Running
    /\ sched # <<>>
    /\ LET s == select_card(sched[1], rating)
       IN  /\ selected' = IF s.panic THEN selected ELSE s.card
           /\ sched' = <<s.sc>>
           /\ panicked' = IF s.panic THEN "select_card" ELSE "no"
    /\ last' = Op("select_card", rating, 0, card)
    /\ ops' = ops + 1
    /\ UNCHANGED <<card, checks, from, built, retr, twin, hist>>

\* selected.update_state(rating): the caller mutates the returned card
UpdateSelected(rating) ==
    /\ Running
    /\ selected # <<>>
    /\ LET u == update_state(selected[1], rating, checks)
       IN  /\ selected' = <<u.card>>
           /\ panicked' = IF u.panic THEN "update_state" ELSE "no"
    /\ last' = Op("selected.update_state", rating, 0, selected[1])
    /\ ops' = ops + 1
    /\ UNCHANGED <<card, sched, checks, from, built, retr, twin, hist>>

\* selected.save_log(rating): the caller mutates the returned card
SaveLogSelected(rating) ==
    /\ Running
    /\ selected # <<>>
    /\ selected' = <<save_log(selected[1], rating)>>
    /\ last' = Op("selected.save_log", rating, 0, selected[1])
    /\ ops' = ops + 1
    /\ UNCHANGED <<card, sched, checks, panicked, from, built, retr,
                   twin, hist>>

\* retr = card.get_retrievability()
GetRetrievability ==
    /\ Running
    /\ retr' = <<get_retrievability(card)>>
    /\ last' = Op("get_retrievability", "none", 0, card)
    /\ ops' = ops + 1
    /\ UNCHANGED <<card, sched, selected, checks, panicked, from, built,
                   twin, hist>>

Next ==
    \/ \E rating \in Ratings : UpdateState(rating)
    \/ \E rating \in Ratings : SaveLog(rating)
    \/ \E now \in Instants : Schedule(now)
    \/ \E rating \in Ratings : SelectCard(rating)
    \/ \E rating \in Ratings : UpdateSelected(rating)
    \/ \E rating \in Ratings : SaveLogSelected(rating)

\* The operations on a card fresh from Card::new().
Spec == Init /\ [][Next]_vars

\* The same operations, also late in a long review history.
SpecLong == InitLong /\ [][Next]_vars

\* The same operations on any stored card.
SpecAny == InitAny /\ [][Next]_vars

\* Cards that differ from Card::new() in stability and elapsed_days, the
\* two fields get_retrievability reads.
RetrCards ==
    {[Card_new(0, 0) EXCEPT !.stability = Fin(k), !.elapsed_days = e] :
        k \in FiniteUnits, e \in 0..MaxDays}

InitRetr == InitWith(RetrCards)

NextRetr == GetRetrievability

\* get_retrievability on cards of any stability and elapsed_days.
SpecRetr == InitRetr /\ [][NextRetr]_vars

\* A second card beside card, as it is after a step from pre.
Twin(c, pre, panic) == <<[card |-> c, pre |-> pre, panic |-> panic]>>

\* The stored cards that update_state can have produced: a card still New
\* has not lapsed.
PairCards == {c \in StoredCards : c.state = "New" => c.lapses = 0}

\* Two stored cards in the same state, whatever their other fields.
InitPair ==
    /\ card \in PairCards
    /\ twin \in {Twin(c, c, FALSE) :
                    c \in {d \in PairCards : d.state = card.state}}
    /\ hist = NoHistory(card)
    /\ sched = <<>>
    /\ selected = <<>>
    /\ checks \in BOOLEAN
    /\ panicked = "no"
    /\ last = NoOp
    /\ from = <<>>
    /\ built = <<>>
    /\ retr = <<>>
    /\ ops = 0

\* card.update_state(rating) and, in a run of its own, the same call on the
\* second card; a run that panicked takes no further step.
UpdateBoth(rating) ==
    /\ Running
    /\ twin # <<>>
    /\ ~twin[1].panic
    /\ LET u == update_state(card, rating, checks)
           v == update_state(twin[1].card, rating, checks)
       IN  /\ card' = u.card
           /\ panicked' = IF u.panic THEN "update_state" ELSE "no"
           /\ twin' = Twin(v.card, twin[1].card, v.panic)
    /\ last' = Op("update_both", rating, 0, card)
    /\ from' = <<card.state>>
    /\ ops' = ops + 1
    /\ UNCHANGED <<sched, selected, checks, built, retr, hist>>

NextPair == \E rating \in Ratings : UpdateBoth(rating)

\* The same rating sequence applied to two cards in the same state.
SpecPair == InitPair /\ [][NextPair]_vars

\* ------------------------------------------------------------------ claims

\* The card before the last operation.
Pre == last.pre[1]

\* new is old + 1 as integers (false when the i32 addition wrapped).
IsSucc(old, new) == new > old /\ new - old = 1

\* The transition table of the state machine, as the specification gives
\* it: the next state and the change of lapses per (state, rating).
TableState(s, r) ==
    CASE s = "New" -> IF r = "Easy" THEN "Review" ELSE "Learning"
      [] s \in {"Learning", "Relearning"} ->
           IF r \in {"Good", "Easy"} THEN "Review" ELSE s
      [] s = "Review" -> IF r = "Again" THEN "Relearning" ELSE s

TableCountsLapse(s, r) == s \in {"New", "Review"} /\ r = "Again"

\* C1: one call of update_state(rating) on a card in any state yields the
\* next state of the table, lapses + 1 in the two marked cases and lapses
\* unchanged otherwise; no pair panics or leaves the four states.
C1_TransitionTable ==
    last.op = "update_state" =>
        /\ panicked = "no"
        /\ card.state \in States
        /\ card.state = TableState(Pre.state, last.rating)
        /\ IF TableCountsLapse(Pre.state, last.rating)
           THEN IsSucc(Pre.lapses, card.lapses)
           ELSE card.lapses = Pre.lapses

\* The table holds for every pair whenever lapses is below i32::MAX before
\* the call (this is what remains of C1 where the counter cannot overflow).
TransitionTableBelowMax ==
    (last.op = "update_state" /\ Pre.lapses < I32_MAX) => C1_TransitionTable

\* C2: for every card c and every rating r, select_card(r) on
\* ScheduledCards::new(&c, now) returns a card whose state and lapses are
\* those of update_state(r) applied directly to a clone of c, and the
\* mapping holds a candidate for each of the 4 ratings.
C2_BatchEqualsDirect ==
    last.op = "new" =>
        \A r \in Ratings :
            LET direct == update_state(Pre, r, checks)
            IN  ~direct.panic =>
                  /\ panicked = "no"
                  /\ sched # <<>>
                  /\ DOMAIN sched[1].cards = Ratings
                  /\ ~select_card(sched[1], r).panic
                  /\ select_card(sched[1], r).card[1].state
                        = direct.card.state
                  /\ select_card(sched[1], r).card[1].lapses
                        = direct.card.lapses

\* Whenever ScheduledCards::new returned, the container holds the 4
\* ratings and every select_card(r) agrees with the direct update_state(r)
\* (this is what remains of C2 where the construction does not panic).
BatchEqualsDirectWhenBuilt ==
    /\ built # <<>> =>
          /\ DOMAIN built[1].sc.cards = Ratings
          /\ \A r \in Ratings :
                LET direct == update_state(built[1].card, r, checks)
                    got    == select_card(built[1].sc, r)
                IN  /\ ~direct.panic
                    /\ ~got.panic
                    /\ got.card[1].state = direct.card.state
                    /\ got.card[1].lapses = direct.card.lapses
    /\ (last.op = "select_card" /\ built # <<>>) =>
          LET direct == update_state(built[1].card, last.rating, checks)
          IN  /\ panicked = "no"
              /\ selected # <<>>
              /\ selected[1].state = direct.card.state
              /\ selected[1].lapses = direct.card.lapses

\* C3: after any sequence of update_state calls, previous_state is the
\* value state had just before the last update_state call, so a save_log
\* after that call records the state the card was reviewed from.
C3_PreviousStateTracksState ==
    from # <<>> =>
        /\ card.previous_state = from[1]
        /\ (last.op = "save_log" => card.log[1].state = from[1])

\* C4: lapses never decreases over update_state, save_log and
\* ScheduledCards::new on a card.
C4_LapsesNeverDecrease ==
    last.op \in {"update_state", "save_log", "new"} =>
        card.lapses >= Pre.lapses

\* C5: after save_log(r) the log is present and holds previous_state, r,
\* elapsed_days, scheduled_days and last_review as they stood at the call,
\* and update_state leaves the log as it was.
C5_LogFidelity ==
    /\ last.op = "save_log" =>
          card.log = << [rating         |-> last.rating,
                         elapsed_days   |-> Pre.elapsed_days,
                         scheduled_days |-> Pre.scheduled_days,
                         state          |-> Pre.previous_state,
                         reviewed_date  |-> Pre.last_review] >>
    /\ last.op = "update_state" => card.log = Pre.log

\* A logged card whose state an update_state then changed, leaving a log
\* whose state is neither the state before nor the state after the update.
C5_Witness ==
    /\ last.op = "update_state"
    /\ card.log # <<>>
    /\ card.state # Pre.state
    /\ card.log[1].state \notin {card.state, Pre.state}
    /\ card.log[1].elapsed_days # card.log[1].scheduled_days

\* C6: reps and lapses are >= 0 in every state reached from Card::new by
\* update_state and save_log, and lapses += 1 neither wraps nor aborts.
C6_CountersNonNegative ==
    /\ card.reps >= 0
    /\ card.lapses >= 0
    /\ panicked = "no"

\* C7: select_card(rating) on a ScheduledCards built by ScheduledCards::new
\* finds a stored candidate for each of the 4 ratings: the unwrap never
\* panics.
C7_SelectNeverFails ==
    /\ panicked # "select_card"
    /\ sched # <<>> =>
          \A r \in Ratings : ~select_card(sched[1], r).panic

\* select_card(Easy), the last rating of the iteration, returned a card.
C7_Witness ==
    /\ last.op = "select_card"
    /\ last.rating = "Easy"
    /\ panicked = "no"
    /\ selected # <<>>

\* C8: every candidate of ScheduledCards::new(&c, now) equals c in every
\* field but state and lapses, and the stored now is the instant passed.
C8_CandidatesKeepOtherFields ==
    (last.op = "new" /\ panicked = "no") =>
        /\ sched # <<>>
        /\ sched[1].now = last.now
        /\ \A r \in DOMAIN sched[1].cards :
              [sched[1].cards[r] EXCEPT !.state = Pre.state,
                                        !.lapses = Pre.lapses] = Pre

\* A container built at the later instant from a reviewed, logged card.
C8_Witness ==
    /\ last.op = "new"
    /\ sched # <<>>
    /\ last.now = MaxInstant
    /\ Pre.log # <<>>
    /\ Pre.reps # 0
    /\ \E r \in Ratings : sched[1].cards[r].state # Pre.state

\* C9: ScheduledCards::new leaves the source card unchanged, each
\* candidate is the source card with only its own rating applied, and
\* select_card returns a copy: no later select_card, and no update_state
\* or save_log on a returned card, changes the stored candidates, so
\* select_card(r) keeps returning the same card.
C9_CandidatesIndependent ==
    /\ last.op = "new" => card = Pre
    /\ built # <<>> =>
          /\ sched = <<built[1].sc>>
          /\ \A r \in Ratings :
                /\ r \in DOMAIN sched[1].cards
                /\ sched[1].cards[r] =
                      update_state(built[1].card, r, checks).card
    /\ (last.op = "select_card" /\ built # <<>>) =>
          selected = <<built[1].sc.cards[last.rating]>>

\* A returned card was changed and no longer equals its stored candidate.
C9_Witness ==
    /\ last.op \in {"selected.update_state", "selected.save_log"}
    /\ selected # <<>>
    /\ sched # <<>>
    /\ \A r \in Ratings : sched[1].cards[r] # selected[1]

\* retr is a finite value strictly between 0 and 1.
InsideUnitInterval(x) == F_Less(Fin(0), x) /\ F_Less(x, F_One)

\* get_retrievability of the card with elapsed_days replaced by e.
RetrAt(e) == get_retrievability([card EXCEPT !.elapsed_days = e])

\* 9.0 * stability is, in f32, exactly elapsed_days: the quotient is then
\* exactly 1 and (1 + e/(9s))^(-1) exactly 1/2.
AtNineStabilities ==
    /\ card.elapsed_days > 0
    /\ f32_mul(F_Nine, card.stability) = Fin(card.elapsed_days * Unit)

F_Half == Fin(Unit \div 2)

\* C10 as amended: for stability > 0, get_retrievability() is exactly 1 at
\* elapsed_days = 0 (and exactly 1/2 at elapsed_days = 9 * stability), lies
\* in [0,1] and does not increase with elapsed_days.
C10_RetrievabilityMonotone ==
    (retr # <<>> /\ card.stability.v > 0) =>
        /\ card.elapsed_days = 0 => retr[1] = F_One
        /\ AtNineStabilities => retr[1] = F_Half
        /\ F_Leq(Fin(0), retr[1])
        /\ F_Leq(retr[1], F_One)
        /\ \A e \in 0..MaxDays :
              e > card.elapsed_days => F_Leq(RetrAt(e), retr[1])

\* A result strictly inside (0,1), at elapsed_days = 9 * stability, that a
\* later day strictly lowers.
C10_Witness ==
    /\ retr # <<>>
    /\ card.stability.v > 0
    /\ AtNineStabilities
    /\ InsideUnitInterval(retr[1])
    /\ \E e \in 0..MaxDays :
          e > card.elapsed_days /\ F_Less(RetrAt(e), retr[1])

\* C10 as claimed: for stability > 0, get_retrievability() is exactly 1 at
\* elapsed_days = 0 (and exactly 1/2 at elapsed_days = 9 * stability), lies
\* in (0,1] and strictly decreases with elapsed_days.
C10_RetrievabilityStrict ==
    (retr # <<>> /\ card.stability.v > 0) =>
        /\ card.elapsed_days = 0 => retr[1] = F_One
        /\ AtNineStabilities => retr[1] = F_Half
        /\ F_Less(Fin(0), retr[1])
        /\ F_Leq(retr[1], F_One)
        /\ \A e \in 0..MaxDays :
              e > card.elapsed_days => F_Less(RetrAt(e), retr[1])

\* C11: every call of update_state leaves due, stability, difficulty,
\* elapsed_days, scheduled_days, reps, last_review, previous_state and log
\* as they were (only state and lapses may change), and no step of any
\* sequence of operations changes reps.
C11_UpdateStateFrame ==
    [][ /\ card'.reps = card.reps
        /\ last'.op = "update_state" =>
              [card' EXCEPT !.state = card.state,
                            !.lapses = card.lapses] = card ]_vars

\* A reviewed and logged card whose state and lapses an update_state
\* changed.
C11_Witness ==
    /\ last.op = "update_state"
    /\ card.state # Pre.state
    /\ card.lapses # Pre.lapses
    /\ card.reps > 0
    /\ card.previous_state \notin {card.state, Pre.state}
    /\ card.log # <<>>

\* Stepped with the same rating, the two cards end in the same state and
\* count a lapse on the same steps.
PairAgrees ==
    /\ card.state = twin[1].card.state
    /\ IsSucc(Pre.lapses, card.lapses)
          <=> IsSucc(twin[1].pre.lapses, twin[1].card.lapses)
    /\ (card.lapses = Pre.lapses)
          <=> (twin[1].card.lapses = twin[1].pre.lapses)

\* C12: two cards in the same state that differ in lapses and the other
\* fields, stepped with the same ratings, have the same state after every
\* step and the same increment of lapses at every step.
C12_StateAndRatingDecide == last.op = "update_both" => PairAgrees

\* The two cards agree at every step before which both have lapses below
\* i32::MAX (this is what remains of C12 where the counter cannot
\* overflow).
PairAgreesBelowMax ==
    (/\ last.op = "update_both"
     /\ Pre.lapses < I32_MAX
     /\ twin[1].pre.lapses < I32_MAX) => PairAgrees

\* C13: the first update_state of a New card moves it to Review on Easy
\* and to Learning on every other rating, and a card that has been in
\* another state is never New again.
C13_NewIsLeftForGood ==
    /\ (last.op = "update_state" /\ Pre.state = "New") =>
          /\ panicked = "no"
          /\ card.state = IF last.rating = "Easy" THEN "Review"
                          ELSE "Learning"
    /\ card.state = "New" => hist.visited = {"New"}

\* A card that left New for Learning and went on to Review and Relearning.
C13_Witness ==
    /\ last.op = "update_state"
    /\ hist.visited = States
    /\ card.state = "Relearning"

\* Some rating changes the state of c.
CanChange(c) ==
    \E r \in Ratings :
        LET u == update_state(c, r, checks)
        IN  ~u.panic /\ u.card.state # c.state

\* c is in Review or one rating takes it there.
ReachesReview(c) ==
    \/ c.state = "Review"
    \/ \E r \in Ratings :
          LET u == update_state(c, r, checks)
          IN  ~u.panic /\ u.card.state = "Review"

\* A Review card regresses to Relearning on Again.
Regresses(c) ==
    c.state = "Review" =>
        LET u == update_state(c, "Again", checks)
        IN  ~u.panic /\ u.card.state = "Relearning"

\* C14: no state is terminal: in every state some rating changes the
\* state, Review is reachable from every state, and a Review card reaches
\* Relearning by a single Again.
C14_NoTerminalState ==
    panicked = "no" =>
        CanChange(card) /\ ReachesReview(card) /\ Regresses(card)

\* No state is terminal for a card whose lapses is below i32::MAX (this is
\* what remains of C14 where the counter cannot overflow).
NoTerminalStateBelowMax ==
    (panicked = "no" /\ card.lapses < I32_MAX) =>
        CanChange(card) /\ ReachesReview(card) /\ Regresses(card)

\* C15: save_log changes no field but log, and the log it leaves is the
\* one record of this call whatever log the card had: after save_log(r1)
\* and save_log(r2) the card is as after save_log(r2) alone.
C15_SaveLogOverwrites ==
    last.op = "save_log" =>
        /\ [card EXCEPT !.log = Pre.log] = Pre
        /\ Len(card.log) = 1
        /\ card.log[1].rating = last.rating
        /\ card = save_log([Pre EXCEPT !.log = <<>>], last.rating)

\* A second save_log, with another rating, on a card that had a log.
C15_Witness ==
    /\ last.op = "save_log"
    /\ Pre.log # <<>>
    /\ Pre.log[1].rating # last.rating
    /\ card.log # Pre.log

\* C16 as amended: get_retrievability() on a card of stability 0 does not
\* panic and changes no field; its result is NaN for elapsed_days = 0 and
\* the finite value 0.0 for every elapsed_days > 0.
C16_ZeroStability ==
    (retr # <<>> /\ card.stability = Fin(0)) =>
        /\ panicked = "no"
        /\ card = Pre
        /\ retr[1] = IF card.elapsed_days = 0 THEN F_NaN ELSE Fin(0)

\* A card of stability 0 and elapsed_days > 0 whose retrievability is 0.0.
C16_Witness ==
    /\ retr # <<>>
    /\ card.stability = Fin(0)
    /\ card.elapsed_days > 0
    /\ retr[1] = Fin(0)

\* C16 as claimed: get_retrievability() on a card of stability 0 does not
\* panic, changes no field and returns a non-finite value for every
\* elapsed_days >= 0.
C16_ZeroStabilityNonFinite ==
    (retr # <<>> /\ card.stability = Fin(0)) =>
        /\ panicked = "no"
        /\ card = Pre
        /\ retr[1].k \in {"inf", "nan"}

\* C17: for a card from Card::new(), lapses is the number of Again ratings
\* applied to it in New or Review, which is at most 1 plus the number of
\* times it entered Relearning, and lapses >= 1 whenever it is in
\* Relearning.
C17_LapsesCountAgains ==
    /\ card.lapses = hist.agains
    /\ card.lapses <= 1 + hist.relearnings
    /\ card.state = "Relearning" => card.lapses >= 1

\* A card that lapsed in New and again in Review, now in Relearning.
C17_Witness ==
    /\ card.state = "Relearning"
    /\ card.lapses = 2
    /\ hist.relearnings = 1

\* C18: update_state enters Relearning only from Review on Again and
\* Learning only from New on Again, Hard or Good; Easy always ends in
\* Review; and a card that has been in Review or Relearning is never in
\* Learning.
C18_EntryRules ==
    /\ last.op = "update_state" =>
          /\ (card.state = "Relearning" /\ Pre.state # "Relearning") =>
                (Pre.state = "Review" /\ last.rating = "Again")
          /\ (card.state = "Learning" /\ Pre.state # "Learning") =>
                (Pre.state = "New" /\ last.rating \in {"Again", "Hard", "Good"})
          /\ last.rating = "Easy" =>
                (panicked = "no" /\ card.state = "Review")
    /\ card.state = "Learning" =>
          hist.visited \cap {"Review", "Relearning"} = {}

\* A Learning card that reached Review and regressed to Relearning.
C18_Witness ==
    /\ last.op = "update_state"
    /\ Pre.state = "Review"
    /\ card.state = "Relearning"
    /\ "Learning" \in hist.visited

====
